---- MODULE Spec2Model ----
(***************************************************************************)
(* Model of cliplm (src/main.rs): read an image from the clipboard, encode *)
(* it, send it with a prompt to a llama.cpp completion endpoint, print the *)
(* answer and optionally continue as an interactive chat.                  *)
(*                                                                         *)
(* Text is modelled as a sequence of tokens (each token a piece of text),  *)
(* so that concatenation, prefixes and line terminators are observable.    *)
(* The program is single threaded; pc is the statement main() is blocked   *)
(* at.  Each action is one blocking call together with the infallible code *)
(* that follows it up to the next blocking call.                           *)
(***************************************************************************)
EXTENDS Integers, Sequences, FiniteSets, TLC

VARIABLES
    pc,         \* program point of main()
    args,       \* parsed command line (struct Args)
    file,       \* what reading the --prompt-file path yields
    img,        \* the clipboard image (width, height, number of bytes)
    b64,        \* base64 text of the encoded image
    req,        \* the mutable Request value; req.prompt is the transcript
    resp,       \* the last response content
    line,       \* the line buffer of the interactive loop
    requests,   \* every request body POSTed so far, in order
    stdout,     \* all text written to standard output, in order
    clipboard,  \* texts written to the clipboard, in order
    exitCode,   \* -1 while running, else the process exit status
    failure,    \* the first failure that occurred, "none" if none
    respLog,    \* history: response contents received, in order
    turnLog,    \* history: one record per line read in the loop
    eofSeen     \* history: read_line has returned 0 characters

vars == <<pc, args, file, img, b64, req, resp, line, requests, stdout,
          clipboard, exitCode, failure, respLog, turnLog, eofSeen>>

----------------------------------------------------------------------------
(* Bounds *)

\* Interactive turns explored (the loop itself is unbounded).
MaxTurns == 2

----------------------------------------------------------------------------
(* Text helpers *)

NL == "\n"

IsPrefix(s, t) == Len(s) <= Len(t) /\ SubSeq(t, 1, Len(s)) = s

IsStrictPrefix(s, t) == Len(s) < Len(t) /\ SubSeq(t, 1, Len(s)) = s

\* t occurs in s as a contiguous run of tokens
Contains(s, t) ==
    \E i \in 1..(Len(s) - Len(t) + 1) : SubSeq(s, i, i + Len(t) - 1) = t

\* String::push_str
push_str(s, t) == s \o t

----------------------------------------------------------------------------
(* Command line, environment *)

\* #[clap(default_value = ...)] of Args::prompt
DefaultPrompt ==
    << "Assistant is skillful in writing long and detailed description to images.",
       NL, "USER: ", "[img-1] Describe the image.", NL, "ASSISTANT:" >>

InlinePrompts == { DefaultPrompt, << "Caption.", NL, "USER: ", "[img-1]", NL, "ASSISTANT:" >> }

FilePrompt == << "From file.", NL, "USER: ", "[img-1] What is this?", NL, "ASSISTANT:" >>

\* Outcome of std::fs::read_to_string on the --prompt-file path
FileStates == { [ok |-> TRUE, text |-> FilePrompt], [ok |-> FALSE, text |-> << >>] }

Temperatures == { "0.5", "0.9" }

NPredicts == { 1024, 16 }

ArgsSet ==
    [ prompt : InlinePrompts, prompt_file : BOOLEAN, interactive : BOOLEAN,
      copy_back : BOOLEAN, temperature : Temperatures, n_predict : NPredicts ]

\* Clipboard images: RGBA buffers whose length may or may not match w*h*4
Images == { [width |-> 1, height |-> 1, len |-> 4],
            [width |-> 2, height |-> 1, len |-> 4] }

NoImage == [width |-> 0, height |-> 0, len |-> 0]

\* Response.content values the server returns
Contents == { << "X" >>, << "Y", NL >> }

\* What read_line leaves in the buffer: the typed text and its terminator.
\* An empty text with no terminator is end of input (Ok(0)).
LineInputs ==
    { [text |-> << "hello" >>, term |-> << NL >>],
      [text |-> << "hello" >>, term |-> << >>],
      [text |-> << >>,         term |-> << NL >>],
      [text |-> << >>,         term |-> << >>] }

\* Outcomes of ureq::post(..).send_json(req)?.into_json()?
HttpErrors == { "NetworkError", "ServerError", "ParseError" }

----------------------------------------------------------------------------
(* Pure parts of main() *)

\* image::write_buffer_with_format succeeds only on a consistent buffer
EncodeOk(i) == i.len = i.width * i.height * 4

\* BASE64_STANDARD.encode(png bytes): injective in the image
Encode(i) == << "b64", "png", i.width, i.height, i.len >>

\* args.prompt_file.map(read_to_string).transpose()?.unwrap_or(args.prompt)
ResolvePromptInlineFirst(a, f) ==
    [ ok |-> TRUE, text |-> a.prompt ]

ResolvePrompt(a, f) ==
    IF a.prompt_file
    THEN IF f.ok THEN [ ok |-> TRUE, text |-> f.text ]
                 ELSE [ ok |-> FALSE, text |-> << >> ]
    ELSE [ ok |-> TRUE, text |-> a.prompt ]

\* let mut req = Request { .. }
NewRequestNoCache(p, a, data) ==
    [ prompt |-> p, temperature |-> a.temperature, n_predict |-> a.n_predict,
      cache_prompt |-> FALSE,
      image_data |-> << [data |-> data, id |-> 1] >>,
      stop |-> << "USER:" >> ]

NewRequest(p, a, data) ==
    [ prompt |-> p, temperature |-> a.temperature, n_predict |-> a.n_predict,
      cache_prompt |-> TRUE,
      image_data |-> << [data |-> data, id |-> 1] >>,
      stop |-> << "USER:" >> ]

EmptyRequest ==
    [ prompt |-> << >>, temperature |-> "0.5", n_predict |-> 0,
      cache_prompt |-> FALSE, image_data |-> << >>, stop |-> << >> ]

\* format!("USER: {line}\nASSISTANT:")
FormatTurn(l) == << "USER: " >> \o l \o << NL, "ASSISTANT:" >>

\* if args.interactive { loop } else if args.copy_back { set_text } ; Ok(())
AfterInitCopyFirst(a) ==
    IF a.copy_back THEN "copy_back"
    ELSE IF a.interactive THEN "loop_prompt"
    ELSE "Done"

AfterInit(a) ==
    IF a.interactive THEN "loop_prompt"
    ELSE IF a.copy_back THEN "copy_back"
    ELSE "Done"

\* The ? operator: an Err returns from main, anything else goes on
TryIgnore(err, next) == next

Try(err, next) == IF err # "none" THEN "Failed" ELSE next

\* Exit status: 1 when main returns Err, 101 when a print macro panics,
\* 0 when main returns Ok(())
ExitOf(err, p) ==
    IF p = "Failed" THEN (IF err = "StdoutPanic" THEN 101 ELSE 1)
    ELSE IF p = "Done" THEN 0
    ELSE -1

\* history: keep the first failure
First(err) == IF failure # "none" THEN failure ELSE err

----------------------------------------------------------------------------
Init ==
    /\ pc = "get_image"
    /\ args \in ArgsSet
    /\ file \in FileStates
    /\ img = NoImage
    /\ b64 = << >>
    /\ req = EmptyRequest
    /\ resp = << >>
    /\ line = << >>
    /\ requests = << >>
    /\ stdout = << >>
    /\ clipboard = << >>
    /\ exitCode = -1
    /\ failure = "none"
    /\ respLog = << >>
    /\ turnLog = << >>
    /\ eofSeen = FALSE

Goto(err, next) ==
    /\ pc' = Try(err, next)
    /\ exitCode' = ExitOf(err, pc')
    /\ failure' = First(err)

\* arboard::Clipboard::new()?; clip.get_image()?
GetImage ==
    /\ pc = "get_image"
    /\ \/ \E i \in Images : img' = i /\ Goto("none", "encode")
       \/ img' = img /\ Goto("ClipboardError", "encode")
    /\ UNCHANGED <<args, file, b64, req, resp, line, requests, stdout,
                   clipboard, respLog, turnLog, eofSeen>>

\* image::write_buffer_with_format(..)?; BASE64_STANDARD.encode(..)
EncodeImage ==
    /\ pc = "encode"
    /\ IF EncodeOk(img)
       THEN b64' = Encode(img) /\ Goto("none", "resolve_prompt")
       ELSE b64' = b64 /\ Goto("EncodingError", "resolve_prompt")
    /\ UNCHANGED <<args, file, img, req, resp, line, requests, stdout,
                   clipboard, respLog, turnLog, eofSeen>>

\* resolve the prompt, build req, and issue the first request(&req)
StartRequest ==
    /\ pc = "resolve_prompt"
    /\ LET r == ResolvePrompt(args, file) IN
       IF r.ok
       THEN /\ req' = NewRequest(r.text, args, b64)
            /\ requests' = Append(requests, req')
            /\ Goto("none", "initial_wait")
       ELSE /\ req' = req
            /\ requests' = requests
            /\ Goto("FileReadError", "initial_wait")
    /\ UNCHANGED <<args, file, img, b64, resp, line, stdout,
                   clipboard, respLog, turnLog, eofSeen>>

\* the outcome of a pending request(&req)?
Response(here, next) ==
    /\ pc = here
    /\ \/ \E c \in Contents :
            /\ resp' = c
            /\ respLog' = Append(respLog, c)
            /\ Goto("none", next)
       \/ \E e \in HttpErrors :
            /\ resp' = resp
            /\ respLog' = respLog
            /\ Goto(e, next)
    /\ UNCHANGED <<args, file, img, b64, req, line, requests, stdout,
                   clipboard, turnLog, eofSeen>>

InitialResponse == Response("initial_wait", "initial_print")

\* println!("{}{}", req.prompt, resp); req.prompt.push_str(&resp); branch
InitialPrintAppendFirst ==
    /\ pc = "initial_print"
    /\ \/ /\ req' = [req EXCEPT !.prompt = push_str(@, resp)]
          /\ stdout' = stdout \o req'.prompt \o resp \o << NL >>
          /\ Goto("none", AfterInit(args))
       \/ /\ UNCHANGED <<stdout, req>>
          /\ Goto("StdoutPanic", AfterInit(args))
    /\ UNCHANGED <<args, file, img, b64, resp, line, requests,
                   clipboard, respLog, turnLog, eofSeen>>

InitialPrint ==
    /\ pc = "initial_print"
    /\ \/ /\ stdout' = stdout \o req.prompt \o resp \o << NL >>
          /\ req' = [req EXCEPT !.prompt = push_str(@, resp)]
          /\ Goto("none", AfterInit(args))
       \/ /\ UNCHANGED <<stdout, req>>
          /\ Goto("StdoutPanic", AfterInit(args))
    /\ UNCHANGED <<args, file, img, b64, resp, line, requests,
                   clipboard, respLog, turnLog, eofSeen>>

\* clip.set_text(resp)?; Ok(())
CopyBack ==
    /\ pc = "copy_back"
    /\ \/ clipboard' = Append(clipboard, resp) /\ Goto("none", "Done")
       \/ clipboard' = clipboard /\ Goto("ClipboardError", "Done")
    /\ UNCHANGED <<args, file, img, b64, req, resp, line, requests, stdout,
                   respLog, turnLog, eofSeen>>

\* line.clear(); print!("USER: "); std::io::stdout().flush()?
LoopPrompt ==
    /\ pc = "loop_prompt"
    /\ line' = << >>
    /\ \/ stdout' = stdout \o << "USER: " >> /\ Goto("none", "loop_read")
       \/ stdout' = stdout /\ Goto("StdoutPanic", "loop_read")
       \/ stdout' = stdout /\ Goto("IoError", "loop_read")
    /\ UNCHANGED <<args, file, img, b64, req, resp, requests,
                   clipboard, respLog, turnLog, eofSeen>>

\* std::io::stdin().read_line(&mut line)?; push the formatted turn; request(&req)
ReadLineStopAtEof ==
    /\ pc = "loop_read"
    /\ Len(turnLog) < MaxTurns
    /\ \/ \E in \in LineInputs :
            IF in.text \o in.term = << >>
            THEN /\ eofSeen' = TRUE
                 /\ UNCHANGED <<line, turnLog, req, requests, failure>>
                 /\ pc' = "Done"
                 /\ exitCode' = 0
            ELSE /\ line' = push_str(line, in.text \o in.term)
                 /\ eofSeen' = eofSeen
                 /\ turnLog' = Append(turnLog, [text |-> in.text, term |-> in.term,
                                                before |-> req.prompt])
                 /\ req' = [req EXCEPT !.prompt = push_str(@, FormatTurn(line'))]
                 /\ requests' = Append(requests, req')
                 /\ Goto("none", "loop_wait")
       \/ /\ UNCHANGED <<line, turnLog, req, requests, eofSeen>>
          /\ Goto("IoError", "loop_wait")
    /\ UNCHANGED <<args, file, img, b64, resp, stdout, clipboard, respLog>>

ReadLine ==
    /\ pc = "loop_read"
    /\ Len(turnLog) < MaxTurns
    /\ \/ \E in \in LineInputs :
            /\ line' = push_str(line, in.text \o in.term)
            /\ eofSeen' = (eofSeen \/ line' = << >>)
            /\ turnLog' = Append(turnLog, [text |-> in.text, term |-> in.term,
                                           before |-> req.prompt])
            /\ req' = [req EXCEPT !.prompt = push_str(@, FormatTurn(line'))]
            /\ requests' = Append(requests, req')
            /\ Goto("none", "loop_wait")
       \/ /\ UNCHANGED <<line, turnLog, req, requests, eofSeen>>
          /\ Goto("IoError", "loop_wait")
    /\ UNCHANGED <<args, file, img, b64, resp, stdout, clipboard, respLog>>

LoopResponse == Response("loop_wait", "loop_print")

\* println!("ASSISTANT: {resp}"); req.prompt.push_str(&resp)
LoopPrintAppendPrinted ==
    /\ pc = "loop_print"
    /\ \/ /\ stdout' = stdout \o << "ASSISTANT: " >> \o resp \o << NL >>
          /\ req' = [req EXCEPT !.prompt = push_str(@, << "ASSISTANT: " >> \o resp)]
          /\ Goto("none", "loop_prompt")
       \/ /\ UNCHANGED <<stdout, req>>
          /\ Goto("StdoutPanic", "loop_prompt")
    /\ UNCHANGED <<args, file, img, b64, resp, line, requests,
                   clipboard, respLog, turnLog, eofSeen>>

LoopPrint ==
    /\ pc = "loop_print"
    /\ \/ /\ stdout' = stdout \o << "ASSISTANT: " >> \o resp \o << NL >>
          /\ req' = [req EXCEPT !.prompt = push_str(@, resp)]
          /\ Goto("none", "loop_prompt")
       \/ /\ UNCHANGED <<stdout, req>>
          /\ Goto("StdoutPanic", "loop_prompt")
    /\ UNCHANGED <<args, file, img, b64, resp, line, requests,
                   clipboard, respLog, turnLog, eofSeen>>

Next ==
    \/ GetImage
    \/ EncodeImage
    \/ StartRequest
    \/ InitialResponse
    \/ InitialPrint
    \/ CopyBack
    \/ LoopPrompt
    \/ ReadLine
    \/ LoopResponse
    \/ LoopPrint

Spec == Init /\ [][Next]_vars

\* The code's scheduling: main() runs on one thread and takes its next step
\* whenever the call it is blocked in returns.
FairSpec == Spec /\ WF_vars(Next)

----------------------------------------------------------------------------
(* Properties *)

Running == exitCode = -1

\* number of loop reads that consumed a user line (returned > 0 characters)
LinesConsumed ==
    Cardinality({ k \in 1..Len(turnLog) : turnLog[k].text \o turnLog[k].term # << >> })

\* number of occurrences of token t in s
Count(s, t) == Cardinality({ i \in 1..Len(s) : s[i] = t })

\* number of places where t occurs in s as a contiguous run of tokens
Occurrences(s, t) ==
    Cardinality({ i \in 1..(Len(s) - Len(t) + 1) : SubSeq(s, i, i + Len(t) - 1) = t })

LoopPcs == { "loop_prompt", "loop_read", "loop_wait", "loop_print" }

\* C1: for every user line L the prompt of the next request is the transcript
\* as it stood after the previous response, followed by exactly
\* "USER: " + L + "\nASSISTANT:", a single newline between L and "ASSISTANT:".
C1_SingleNewlineTurn ==
    \A k \in 1..Len(turnLog) :
        requests[k + 1].prompt =
            turnLog[k].before \o << "USER: " >> \o turnLog[k].text
                              \o << NL, "ASSISTANT:" >>

\* C2: the first request's prompt is the file's contents when --prompt-file
\* is given and readable, the --prompt value when it is not given; with an
\* unreadable file no request is issued and the process fails.
C2_PromptResolution ==
    /\ requests # << >> =>
          requests[1].prompt = (IF args.prompt_file THEN file.text ELSE args.prompt)
    /\ (args.prompt_file /\ ~file.ok) =>
          /\ requests = << >>
          /\ pc \in { "get_image", "encode", "resolve_prompt", "Failed" }
          /\ (pc = "Failed" => exitCode \notin { -1, 0 })

C2_Witness ==
    /\ requests # << >>
    /\ args.prompt_file /\ file.ok
    /\ args.prompt = DefaultPrompt
    /\ requests[1].prompt = FilePrompt

\* C3: after a successful initial exchange the driver takes exactly one of
\* three branches: interactive -> the loop, never a clipboard write;
\* copy_back only -> one clipboard write of the first response, then Done;
\* neither -> Done without a clipboard write.  At most one clipboard write.
C3_BranchInv ==
    /\ Len(clipboard) <= 1
    /\ args.interactive => (clipboard = << >> /\ pc # "copy_back")
    /\ (~args.interactive /\ ~args.copy_back) => (clipboard = << >> /\ pc # "copy_back")
    /\ ~args.interactive => pc \notin LoopPcs
    /\ (pc = "Done" /\ args.copy_back) => clipboard = << respLog[1] >>
    /\ clipboard # << >> => (pc = "Done" /\ clipboard = << respLog[1] >>)

C3_BranchStep ==
    (pc = "initial_print" /\ failure' = "none") =>
        pc' = (IF args.interactive THEN "loop_prompt"
               ELSE IF args.copy_back THEN "copy_back" ELSE "Done")

C3_Branches == [] C3_BranchInv /\ [][C3_BranchStep]_vars

C3_Witness ==
    /\ pc = "Done"
    /\ args.copy_back
    /\ clipboard = << respLog[1] >>

\* C4: once the initial request is issued, the number of requests issued
\* equals 1 + the number of user lines consumed, and it is 0 before; a
\* non-interactive run issues exactly one.
C4_RequestCount ==
    /\ Len(requests) = (IF pc \in { "get_image", "encode", "resolve_prompt" } \/ requests = << >>
                        THEN 0 ELSE 1 + LinesConsumed)
    /\ ~args.interactive => Len(requests) <= 1

\* C5: the first failure at any stage terminates the process with a non-zero
\* exit status, and from the failure on there is no request, no output, no
\* transcript append and no clipboard write; a failed request k leaves the
\* transcript without response k and nothing printed for it.
C5_FatalInv ==
    /\ failure # "none" => (pc = "Failed" /\ exitCode \notin { -1, 0 })
    /\ failure \in HttpErrors =>
          /\ Len(respLog) = Len(requests) - 1
          /\ req.prompt = requests[Len(requests)].prompt
          /\ Count(stdout, "ASSISTANT: ") = Len(respLog) - (IF respLog = << >> THEN 0 ELSE 1)
          /\ (Len(requests) = 1 => stdout = << >>)

C5_FatalStep ==
    failure' # "none" =>
        /\ requests' = requests
        /\ stdout' = stdout
        /\ req' = req
        /\ clipboard' = clipboard

C5_Fatal == [] C5_FatalInv /\ [][C5_FatalStep]_vars

C5_Witness ==
    /\ failure = "ServerError"
    /\ Len(requests) = 2
    /\ pc = "Failed"

\* C6: the initial exchange prints the prompt as it was sent immediately
\* followed by the content and a line break, and afterwards the transcript
\* is the prompt followed by the content.
C6_InitialPrint ==
    stdout # << >> =>
        LET P == requests[1].prompt
            X == respLog[1]
        IN /\ IsPrefix(P \o X \o << NL >>, stdout)
           /\ IsPrefix(P \o X, req.prompt)
           /\ (turnLog = << >> /\ pc \in { "Done", "copy_back", "loop_prompt" }) =>
                 /\ stdout = P \o X \o << NL >>
                 /\ Occurrences(stdout, X) = 1
                 /\ req.prompt = P \o X

C6_Witness ==
    /\ pc = "Done"
    /\ stdout = requests[1].prompt \o << "X" >> \o << NL >>
    /\ req.prompt = requests[1].prompt \o << "X" >>

\* C7: once end of input has been observed in the loop, no further request
\* is issued.
C7_EofStopsRequests == [][eofSeen' => requests' = requests]_vars

\* C8: every request of a run carries exactly one image with id 1 and the
\* data of the first request, and the same temperature, n_predict,
\* cache_prompt = true and stop = ["USER:"].
C8_SameImageAndParams ==
    \A k \in 1..Len(requests) :
        /\ Len(requests[k].image_data) = 1
        /\ requests[k].image_data[1].id = 1
        /\ requests[k].image_data[1].data = requests[1].image_data[1].data
        /\ requests[k].image_data[1].data = Encode(img)
        /\ requests[k].temperature = args.temperature
        /\ requests[k].n_predict = args.n_predict
        /\ requests[k].cache_prompt = TRUE
        /\ requests[k].stop = << "USER:" >>
        /\ [requests[k] EXCEPT !.prompt = << >>] = [requests[1] EXCEPT !.prompt = << >>]

C8_Witness == Len(requests) >= 3

\* C9: the transcript is append-only: each request's prompt strictly extends
\* the previous one by the previous response and the formatted user turn,
\* and the printed prefix "ASSISTANT: " never enters the transcript.
C9_AppendInv ==
    /\ \A k \in 1..(Len(requests) - 1) :
          /\ IsStrictPrefix(requests[k].prompt, requests[k + 1].prompt)
          /\ requests[k + 1].prompt =
                requests[k].prompt \o respLog[k] \o << "USER: " >>
                   \o turnLog[k].text \o turnLog[k].term \o << NL, "ASSISTANT:" >>
    /\ ~Contains(req.prompt, << "ASSISTANT: " >>)

C9_AppendStep == IsPrefix(req.prompt, req'.prompt)

C9_AppendOnly == [] C9_AppendInv /\ [][C9_AppendStep]_vars

C9_Witness ==
    /\ Len(requests) = 3
    /\ pc = "loop_prompt"
    /\ Contains(stdout, << "ASSISTANT: " >>)

\* C10: an interactive run never reaches Done: it ends only by a failed
\* console write, console read or request, with a non-zero exit status; a
\* non-interactive run without a failure terminates in Done with status 0.
C10_ExitInv ==
    /\ (args.interactive /\ ~Running) =>
          /\ pc = "Failed" /\ exitCode \notin { -1, 0 }
          /\ (respLog # << >> /\ stdout # << >>) =>
                failure \in { "StdoutPanic", "IoError" } \cup HttpErrors
    /\ pc \in LoopPcs => Running
    /\ (~args.interactive /\ ~Running /\ failure = "none") =>
          (pc = "Done" /\ exitCode = 0)

C10_Exit ==
    /\ [] C10_ExitInv
    /\ [] (~args.interactive => <> ~Running)

C10_Witness ==
    /\ args.interactive
    /\ pc = "Failed"
    /\ failure = "IoError"
    /\ Len(turnLog) = 1
    /\ eofSeen

====
